---- MODULE Spec2Model ----
(***************************************************************************)
(* A model of the ICQ message viewer (icq_viewer.py) and of its database   *)
(* probing script (database_probing.py).                                   *)
(*                                                                         *)
(* Text is a sequence of characters; a character is a TLA+ string.  Three  *)
(* fixed literals of the source are kept atomic, as one character each:    *)
(*   "D"  the ten letters  DataRawTex   (the literal part of the regex     *)
(*        DataRawText* : the final t carries the star)                     *)
(*   "M"  the eight letters MimeType                                       *)
(*   "&amp;" "&lt;" "&gt;"  the three character references                 *)
(* "t" is the letter t, "a" any other letter, " " a blank, "LF" a line     *)
(* feed, "x00" ... "x12" the control characters, "xC3" "xA9" "xFF" bytes   *)
(* above 0x7F.                                                             *)
(***************************************************************************)
EXTENDS Integers, Sequences, FiniteSets

VARIABLES
    \* ---- clean_message, one step at a time (SpecDecode) ----
    content,      \* the argument of clean_message
    inner,        \* the text wrapped in the payload when it was built well-formed
    dpc,          \* the position in clean_message
    text,         \* the local `content` after decoding and control stripping
    span,         \* match.group(1).strip()
    work,         \* the local `cleaned_content`
    drops,        \* iterations of the while loop so far
    result,       \* the returned string
    \* ---- the viewer and the probing script (Spec) ----
    file,         \* the container file at db_path: absent, empty or valid
    rows,         \* the Messages table, in rowid order
    status,       \* the viewer process
    chat_list,    \* ChatViewer.chat_list items
    messages,     \* ChatModel.messages
    fetched,      \* rowids returned by the last Messages query, in its order
    lastSel,      \* icq number of the last selection, 0 before the first
    openConns,    \* connections opened by a returned load and not closed
    report,       \* last line printed on stdout / the fault raised
    probeOut      \* what the probing function last returned or listed

decodeVars == <<content, inner, dpc, text, span, work, drops, result>>
viewerVars == <<file, rows, status, chat_list, messages, fetched, lastSel,
                openConns, report, probeOut>>
vars == <<content, inner, dpc, text, span, work, drops, result,
          file, rows, status, chat_list, messages, fetched, lastSel,
          openConns, report, probeOut>>

(***************************************************************************)
(* Bounds.                                                                 *)
(***************************************************************************)
MaxLen == 4          \* longest free-form payload
MaxBody == 3         \* longest text inside a well-formed payload
MaxRows == 2         \* most rows of the Messages table
MaxOpenConns == 2    \* cap of the leaked-connection counter
UnitsPerDay == 4     \* resolution of the fractional day

DropCap == MaxLen + 2

\* Python's None in a fromUser column; ICQ numbers are positive
NULL == 0

(***************************************************************************)
(* Sequences helpers.                                                      *)
(***************************************************************************)
SeqsUpTo(S, n) == UNION {[1..k -> S] : k \in 0..n}

Drop(s, k) == IF k >= Len(s) THEN <<>> ELSE SubSeq(s, k + 1, Len(s))

Range(s) == {s[i] : i \in 1..Len(s)}

(***************************************************************************)
(* bytes.decode('utf-8') and bytes.decode('latin-1').                      *)
(***************************************************************************)
HighBytes == {"xC3", "xA9", "xFF"}

RECURSIVE Utf8Valid(_)
Utf8Valid(b) ==
    IF b = <<>> THEN TRUE
    ELSE IF b[1] \notin HighBytes THEN Utf8Valid(Tail(b))
    ELSE IF b[1] = "xC3" /\ Len(b) >= 2 /\ b[2] = "xA9" THEN Utf8Valid(Drop(b, 2))
    ELSE FALSE

RECURSIVE Utf8Decode(_)
Utf8Decode(b) ==
    IF b = <<>> THEN <<>>
    ELSE IF b[1] = "xC3" THEN <<"e'">> \o Utf8Decode(Drop(b, 2))
    ELSE <<b[1]>> \o Utf8Decode(Tail(b))

Latin1Char(c) ==
    CASE c = "xC3" -> "A~"
      [] c = "xA9" -> "(c)"
      [] c = "xFF" -> "y:"
      [] OTHER -> c

Latin1Decode(b) == [i \in 1..Len(b) |-> Latin1Char(b[i])]

BinaryData == <<"[Binary Data]">>
Sentinel == <<"[No Message Found]">>

\* lines 209-216: bytes are decoded, anything else is left as it is.  The
\* inner except is never taken: latin-1 decodes every byte.
DecodeContent(c) ==
    IF c.type = "bytes"
    THEN IF Utf8Valid(c.val) THEN Utf8Decode(c.val) ELSE Latin1Decode(c.val)
    ELSE c.val

(***************************************************************************)
(* The five re.sub calls of lines 218-222.                                 *)
(***************************************************************************)
ControlChars == {"x00", "x08", "x10", "x01", "x12"}

StripControl(s) == SelectSeq(s, LAMBDA c : c \notin ControlChars)

(***************************************************************************)
(* re.search(r'DataRawText*(.*?)\s*MimeType', content, re.DOTALL)          *)
(***************************************************************************)
Whitespace == {" ", "LF"}

\* leftmost position where the pattern can match: a D with an M after it
MatchStart(s) ==
    LET starts == {i \in 1..Len(s) :
                      s[i] = "D" /\ \E m \in (i + 1)..Len(s) : s[m] = "M"}
    IN IF starts = {} THEN 0
       ELSE CHOOSE i \in starts : \A k \in starts : i <= k

\* t* is greedy: the position after the run of t that follows position i
RECURSIVE AfterTs(_, _)
AfterTs(s, i) == IF i <= Len(s) /\ s[i] = "t" THEN AfterTs(s, i + 1) ELSE i

\* \s*MimeType matches at position j
RECURSIVE TailMatches(_, _)
TailMatches(s, j) ==
    IF j > Len(s) THEN FALSE
    ELSE IF s[j] = "M" THEN TRUE
    ELSE IF s[j] \in Whitespace THEN TailMatches(s, j + 1)
    ELSE FALSE

\* (.*?) is lazy: the first position from g on where the tail matches
RECURSIVE GroupEnd(_, _)
GroupEnd(s, j) == IF TailMatches(s, j) THEN j ELSE GroupEnd(s, j + 1)

\* the match object: whether there is one, and its group(1)
Search(s) ==
    LET i == MatchStart(s)
    IN IF i = 0 THEN [found |-> FALSE, group |-> <<>>]
       ELSE LET g == AfterTs(s, i + 1)
            IN [found |-> TRUE, group |-> SubSeq(s, g, GroupEnd(s, g) - 1)]

\* str.strip()
RECURSIVE LStrip(_)
LStrip(s) == IF s # <<>> /\ s[1] \in Whitespace THEN LStrip(Tail(s)) ELSE s

RECURSIVE RStrip(_)
RStrip(s) ==
    IF s # <<>> /\ s[Len(s)] \in Whitespace
    THEN RStrip(SubSeq(s, 1, Len(s) - 1)) ELSE s

Strip(s) == LStrip(RStrip(s))

(***************************************************************************)
(* The while loop of lines 232-233.                                        *)
(***************************************************************************)
StartsWithLt(s) == s # <<>> /\ s[1] = "<"

\* cleaned_content[1:]
DropFirst(s) == IF s = <<>> THEN <<>> ELSE Tail(s)

\* The loop as a whole: it leaves at the first "<"; on a text without one it
\* reaches the empty text, which DropFirst maps to itself, and never leaves.
RECURSIVE TrimLoop(_)
TrimLoop(s) ==
    IF StartsWithLt(s) THEN [hangs |-> FALSE, text |-> s]
    ELSE IF s = <<>> THEN [hangs |-> TRUE, text |-> s]
    ELSE TrimLoop(DropFirst(s))

(***************************************************************************)
(* html.unescape and re.sub(r'<.*?>', '', ...) of lines 238-239.           *)
(***************************************************************************)
UnescapeChar(c) ==
    CASE c = "&amp;" -> "&"
      [] c = "&lt;" -> "<"
      [] c = "&gt;" -> ">"
      [] OTHER -> c

\* no reference replaced
UnescapeNone(s) == s

Unescape(s) == [i \in 1..Len(s) |-> UnescapeChar(s[i])]

\* the end of the tag that opens at s[1] = "<": the first ">" with no line
\* feed before it ('.' does not match a line feed here), 0 when there is none
RECURSIVE TagEnd(_, _)
TagEnd(s, j) ==
    IF j > Len(s) THEN 0
    ELSE IF s[j] = ">" THEN j
    ELSE IF s[j] = "LF" THEN 0
    ELSE TagEnd(s, j + 1)

RECURSIVE StripTags(_)
StripTags(s) ==
    IF s = <<>> THEN <<>>
    ELSE IF s[1] = "<" /\ TagEnd(s, 2) # 0 THEN StripTags(Drop(s, TagEnd(s, 2)))
    ELSE <<s[1]>> \o StripTags(Tail(s))

(***************************************************************************)
(* clean_message as a whole: how it ends and what it returns.              *)
(***************************************************************************)
\* re.sub on an argument that is neither bytes nor str raises TypeError
clean_message(c) ==
    IF c.type = "none" THEN [kind |-> "TypeError", text |-> <<>>]
    ELSE LET m == Search(StripControl(DecodeContent(c)))
         IN IF ~m.found
            THEN [kind |-> "ok", text |-> StripTags(Unescape(Sentinel))]
            ELSE LET t == TrimLoop(Strip(m.group))
                 IN IF t.hangs THEN [kind |-> "hang", text |-> <<>>]
                    ELSE [kind |-> "ok", text |-> StripTags(Unescape(t.text))]

(***************************************************************************)
(* Payloads.                                                               *)
(***************************************************************************)
FreeAlphabet == {"D", "t", "M", "<", ">", "a", " "}
NoisyAlphabet == {"D", "M", "<", "x00", "xC3", "xA9"}
BodyAlphabet == {"a", " ", "&amp;", "&lt;", "&gt;"}

Bytes(s) == [type |-> "bytes", val |-> s]
Str(s) == [type |-> "str", val |-> s]
None == [type |-> "none", val |-> <<>>]

NoInner == <<"-">>

\* DataRawText, blanks, <a>body<a>, blanks, MimeType
Wrap(body, w1, w2) ==
    <<"D", "t">> \o w1 \o <<"<", "a", ">">> \o body \o <<"<", "a", ">">>
        \o w2 \o <<"M">>

Blanks == {<<>>, <<" ">>}

(***************************************************************************)
(* clean_message, one statement at a time.                                 *)
(***************************************************************************)
FreePayloads == {Bytes(s) : s \in SeqsUpTo(FreeAlphabet, MaxLen)}
NoisyPayloads == {Bytes(s) : s \in SeqsUpTo(NoisyAlphabet, MaxLen)}
StrPayloads == {Str(s) : s \in SeqsUpTo({"D", "M", "<", "xC3"}, 3)}
WrappedBodies == SeqsUpTo(BodyAlphabet, MaxBody)

NoProbe == [said |-> "", names |-> <<>>]

IdleViewer ==
    /\ file = "absent"
    /\ rows = <<>>
    /\ status = "notstarted"
    /\ chat_list = <<>>
    /\ messages = <<>>
    /\ fetched = <<>>
    /\ lastSel = 0
    /\ openConns = 0
    /\ report = ""
    /\ probeOut = NoProbe

DecodeEntry ==
    /\ dpc = "start"
    /\ text = <<>>
    /\ span = <<>>
    /\ work = <<>>
    /\ drops = 0
    /\ result = <<>>

InitDecode ==
    /\ \/ /\ content \in FreePayloads \cup NoisyPayloads \cup StrPayloads \cup {None}
          /\ inner = NoInner
       \/ \E b \in WrappedBodies, w1 \in Blanks, w2 \in Blanks :
              /\ content = Bytes(Wrap(b, w1, w2))
              /\ inner = b
    /\ DecodeEntry
    /\ IdleViewer

\* lines 209-216
CM_Decode ==
    /\ dpc = "start"
    /\ text' = DecodeContent(content)
    /\ dpc' = "sub"
    /\ UNCHANGED <<content, inner, span, work, drops, result>>
    /\ UNCHANGED viewerVars

\* lines 218-222; re.sub raises TypeError on None
CM_StripControl ==
    /\ dpc = "sub"
    /\ IF content.type = "none"
       THEN dpc' = "raised" /\ text' = text
       ELSE dpc' = "search" /\ text' = StripControl(text)
    /\ UNCHANGED <<content, inner, span, work, drops, result>>
    /\ UNCHANGED viewerVars

\* lines 225-229 and 234-236
CM_Search ==
    /\ dpc = "search"
    /\ LET m == Search(text)
       IN IF m.found
          THEN /\ span' = Strip(m.group)
               /\ work' = Strip(m.group)
               /\ dpc' = "trim"
          ELSE /\ span' = span
               /\ work' = Sentinel
               /\ dpc' = "cleanup"
    /\ UNCHANGED <<content, inner, text, drops, result>>
    /\ UNCHANGED viewerVars

\* lines 232-233, one iteration; the count of iterations is capped at DropCap
CM_TrimDrop ==
    /\ dpc = "trim"
    /\ ~StartsWithLt(work)
    /\ drops < DropCap
    /\ work' = DropFirst(work)
    /\ drops' = drops + 1
    /\ UNCHANGED <<content, inner, dpc, text, span, result>>
    /\ UNCHANGED viewerVars

\* line 232, the loop's exit
CM_TrimExit ==
    /\ dpc = "trim"
    /\ StartsWithLt(work)
    /\ dpc' = "cleanup"
    /\ UNCHANGED <<content, inner, text, span, work, drops, result>>
    /\ UNCHANGED viewerVars

\* lines 238-241
CM_Cleanup ==
    /\ dpc = "cleanup"
    /\ result' = StripTags(Unescape(work))
    /\ dpc' = "done"
    /\ UNCHANGED <<content, inner, text, span, work, drops>>
    /\ UNCHANGED viewerVars

NextDecode ==
    \/ CM_Decode
    \/ CM_StripControl
    \/ CM_Search
    \/ CM_TrimDrop
    \/ CM_TrimExit
    \/ CM_Cleanup

SpecDecode == InitDecode /\ [][NextDecode]_vars

\* the stepwise run and clean_message agree on every finished call
StepwiseAgrees ==
    /\ dpc = "done" => clean_message(content) = [kind |-> "ok", text |-> result]
    /\ dpc = "raised" => clean_message(content).kind = "TypeError"
    /\ (dpc = "trim" /\ drops > Len(span)) => clean_message(content).kind = "hang"

(***************************************************************************)
(* The container: the Users and Participants tables are fixed, the         *)
(* Messages table is drawn.  User 3 has no row in Participants.            *)
(***************************************************************************)
UsersTable ==
    << [icq |-> 1, name |-> "alice"],
       [icq |-> 2, name |-> "bob"],
       [icq |-> 3, name |-> "carol"] >>

ParticipantsTable ==
    << [userid |-> 1, participantsHash |-> 7],
       [userid |-> 2, participantsHash |-> 8] >>

FromValues == {NULL, 1}
\* day counts, in units of 1/UnitsPerDay of a day
Dates == {0 - 1, 5}

WellFormedPayload ==
    Bytes(<<"D", "t", " ", "<", "a", ">", "a", "&amp;", "a", "<", "a", ">", " ", "M">>)
NoMarkerPayload == Bytes(<<"a", "<", "a", ">">>)
NoAnglePayload == Bytes(<<"D", "t", "a", "M">>)
RowPayloads == {WellFormedPayload, NoMarkerPayload, NoAnglePayload, None}

\* rows of conversation 7 carry every payload, rows of conversation 8 the
\* well-formed one
RowSpace ==
    [fromUser : FromValues, participantsHash : {7}, data : RowPayloads,
     date : Dates]
    \cup [fromUser : FromValues, participantsHash : {8},
          data : {WellFormedPayload}, date : Dates]

\* a malformed row between two well-formed rows of one conversation
WellFormedRows == {r \in RowSpace : r.participantsHash = 7 /\ r.data = WellFormedPayload}
MalformedRows == {r \in RowSpace : r.participantsHash = 7 /\ r.data # WellFormedPayload}
InterleavedTables ==
    {<<a, m, b>> : a \in WellFormedRows, m \in MalformedRows, b \in WellFormedRows}

Columns(table) ==
    IF table = "Participants" THEN <<"userid", "participantsHash">>
    ELSE <<"fromUser", "participantsHash", "data", "date">>

(***************************************************************************)
(* The queries of load_messages.                                           *)
(***************************************************************************)
\* cursor.fetchone() of SELECT participantsHash FROM Participants WHERE userid = ?
FetchParticipantRow(icq) ==
    LET hits == {i \in 1..Len(ParticipantsTable) : ParticipantsTable[i].userid = icq}
    IN IF hits = {} THEN [found |-> FALSE, hash |-> 0]
       ELSE [found |-> TRUE,
             hash |-> ParticipantsTable[CHOOSE i \in hits : \A k \in hits : i <= k]
                          .participantsHash]

Matching(tbl, hash) == {i \in 1..Len(tbl) : tbl[i].participantsHash = hash}

Orderings(ids) ==
    {f \in [1..Cardinality(ids) -> ids] : \A i, j \in 1..Cardinality(ids) :
                                              i # j => f[i] # f[j]}

\* the query without its ORDER BY: rows come in rowid order
QueryMessagesUnordered(tbl, hash) ==
    {f \in Orderings(Matching(tbl, hash)) :
        \A i, j \in 1..Len(f) : i < j => f[i] < f[j]}

\* the query without its WHERE
QueryMessagesAll(tbl, hash) ==
    {f \in Orderings(1..Len(tbl)) :
        \A i, j \in 1..Len(f) : i < j => tbl[f[i]].date <= tbl[f[j]].date}

\* cursor.fetchall() of SELECT ... WHERE participantsHash = ? ORDER BY date:
\* the rowids of the matching rows in any order that ascends by date (SQL
\* leaves the order of rows with equal dates open)
QueryMessages(tbl, hash) ==
    {f \in Orderings(Matching(tbl, hash)) :
        \A i, j \in 1..Len(f) : i < j => tbl[f[i]].date <= tbl[f[j]].date}

(***************************************************************************)
(* decode_timestamp, ChatMessage, ChatModel.                               *)
(***************************************************************************)
\* date(1899, 12, 30).toordinal()
EpochOrdinal == 693594

\* datetime(1899, 12, 30) + timedelta(days=ts): timedelta normalises to whole
\* days (floor) and a non-negative rest
decode_timestamp(ts) ==
    [day |-> EpochOrdinal + (ts \div UnitsPerDay), part |-> ts % UnitsPerDay]

\* the test left out
IsMeAlways(from_user) == TRUE

\* from_user is None
IsMe(from_user) == from_user = NULL

SenderLabel(is_me, username) == IF is_me THEN "You" ELSE username

ChatMessage(t, sender, timestamp, is_me) ==
    [text |-> t, sender |-> sender, timestamp |-> timestamp, is_me |-> is_me]

\* a clear that removes nothing
ChatModel_clear_nothing(msgs) == msgs

ChatModel_clear(msgs) == <<>>

ChatModel_add_message(msgs, msg) == Append(msgs, msg)

\* the for loop of lines 320-328 over the fetched rows: the messages in the
\* model when it ends, and how it ends (a row whose clean_message raises or
\* never returns ends it there)
RECURSIVE Display(_, _, _, _)
Display(tbl, f, username, msgs) ==
    IF f = <<>> THEN [end |-> "ok", msgs |-> msgs]
    ELSE LET row == tbl[f[1]]
             is_me == IsMe(row.fromUser)
             cm == clean_message(row.data)
         IN IF cm.kind # "ok" THEN [end |-> cm.kind, msgs |-> msgs]
            ELSE Display(tbl, Tail(f), username,
                         ChatModel_add_message(msgs,
                             ChatMessage(cm.text, SenderLabel(is_me, username),
                                         decode_timestamp(row.date), is_me)))

(***************************************************************************)
(* The viewer.                                                             *)
(***************************************************************************)
Init ==
    /\ \/ file = "absent" /\ rows = <<>>
       \/ file = "valid" /\ rows \in SeqsUpTo(RowSpace, MaxRows) \cup InterleavedTables
    /\ status = "notstarted"
    /\ chat_list = <<>>
    /\ messages = <<>>
    /\ fetched = <<>>
    /\ lastSel = 0
    /\ openConns = 0
    /\ report = ""
    /\ probeOut = NoProbe
    /\ content = None
    /\ inner = NoInner
    /\ DecodeEntry

\* sqlite3.connect(path): SQLite creates the file when there is none
Connect(f) == IF f = "absent" THEN "empty" ELSE f

\* ChatViewer.__init__: init_ui, then load_users.  Without a Users table the
\* SELECT raises OperationalError out of the constructor and the process ends.
Construct ==
    /\ status = "notstarted"
    /\ file' = Connect(file)
    /\ IF file = "valid"
       THEN /\ chat_list' = [i \in 1..Len(UsersTable) |->
                                [UserRole |-> UsersTable[i].icq,
                                 DisplayRole |-> UsersTable[i].name]]
            /\ status' = "idle"
            /\ report' = report
       ELSE /\ chat_list' = chat_list
            /\ status' = "crashed"
            /\ report' = "OperationalError"
    /\ UNCHANGED <<rows, messages, fetched, lastSel, openConns, probeOut>>
    /\ UNCHANGED decodeVars

\* load_messages(icq_number, username).  An exception that leaves the slot
\* ends the process (PyQt5 calls qFatal); a clean_message that never returns
\* leaves the viewer hung.  The connection the early return leaves unclosed is
\* closed by the interpreter's finalizer at once, later or never.
load_messages(icq_number, username) ==
    /\ lastSel' = icq_number
    /\ file' = Connect(file)
    /\ IF file # "valid"
       THEN /\ messages' = ChatModel_clear(messages)
            /\ fetched' = <<>>
            /\ status' = "crashed"
            /\ report' = "OperationalError"
            /\ openConns' = openConns
       ELSE LET p == FetchParticipantRow(icq_number)
            IN IF ~p.found
               THEN /\ messages' = ChatModel_clear(messages)
                    /\ fetched' = <<>>
                    /\ status' = status
                    /\ report' = "No participant found"
                    /\ \E finalized \in BOOLEAN :
                           openConns' = IF finalized THEN openConns
                                        ELSE openConns + 1
               ELSE \E f \in QueryMessages(rows, p.hash) :
                        LET d == Display(rows, f, username,
                                         ChatModel_clear(messages))
                        IN /\ messages' = d.msgs
                           /\ fetched' = f
                           /\ status' = CASE d.end = "ok" -> status
                                          [] d.end = "TypeError" -> "crashed"
                                          [] OTHER -> "hung"
                           /\ report' = IF d.end = "TypeError" THEN "TypeError"
                                        ELSE report
                           /\ openConns' = openConns

\* on_chat_selected(item); the count of leaked connections is capped
OnChatSelected ==
    /\ status = "idle"
    /\ openConns < MaxOpenConns
    /\ \E k \in 1..Len(chat_list) :
           load_messages(chat_list[k].UserRole, chat_list[k].DisplayRole)
    /\ UNCHANGED <<rows, chat_list, probeOut>>
    /\ UNCHANGED decodeVars

(***************************************************************************)
(* The probing script.                                                     *)
(***************************************************************************)
\* open_qdb_file(file_path)
OpenQdbFile ==
    /\ IF file = "absent"
       THEN probeOut' = [said |-> "does not exist", names |-> <<>>]
       ELSE probeOut' = [said |-> "Tables found in the database:",
                         names |-> IF file = "valid"
                                   THEN <<"Users", "Participants", "Messages">>
                                   ELSE <<>>]
    /\ UNCHANGED <<file, rows, status, chat_list, messages, fetched, lastSel,
                   openConns, report>>
    /\ UNCHANGED decodeVars

\* get_column_names(db_path, table_name)
GetColumnNames ==
    /\ \E table \in {"Participants", "Messages"} :
           probeOut' = [said |-> "",
                        names |-> IF file = "valid" THEN Columns(table) ELSE <<>>]
    /\ file' = Connect(file)
    /\ UNCHANGED <<rows, status, chat_list, messages, fetched, lastSel,
                   openConns, report>>
    /\ UNCHANGED decodeVars

\* the viewer: its start and the selections made in it
Next ==
    \/ Construct
    \/ OnChatSelected

Spec == Init /\ [][Next]_vars

\* the entry points that open the container, on a container that may be absent
NextProbe ==
    \/ Construct
    \/ OpenQdbFile
    \/ GetColumnNames

SpecProbe == Init /\ [][NextProbe]_vars

(***************************************************************************)
(* What the claims speak of, read off the tables and the payload.          *)
(***************************************************************************)
HasKey(icq) == \E i \in 1..Len(ParticipantsTable) : ParticipantsTable[i].userid = icq

KeyOf(icq) ==
    ParticipantsTable[CHOOSE i \in 1..Len(ParticipantsTable) :
                          ParticipantsTable[i].userid = icq].participantsHash

NameOf(icq) ==
    UsersTable[CHOOSE i \in 1..Len(UsersTable) : UsersTable[i].icq = icq].name

ConversationRows(icq) == {i \in 1..Len(rows) : rows[i].participantsHash = KeyOf(icq)}

TsLeq(a, b) == a.day < b.day \/ (a.day = b.day /\ a.part <= b.part)

\* the literal token DataRawText, later followed by the literal token MimeType
HasMarkerPair(s) ==
    \E i \in 1..Len(s) : \E j \in 1..Len(s) :
        /\ i + 1 < j
        /\ s[i] = "D"
        /\ s[i + 1] = "t"
        /\ s[j] = "M"

\* a text with every character reference replaced by its character
Literal(s) ==
    [i \in 1..Len(s) |->
        IF s[i] = "&amp;" THEN "&"
        ELSE IF s[i] = "&lt;" THEN "<"
        ELSE IF s[i] = "&gt;" THEN ">"
        ELSE s[i]]

\* a text without what lies between a "<" and the next ">", both included; a
\* "<" with no ">" after it in the text runs to the closing tag that follows
RECURSIVE CutSpans(_)
CutSpans(s) ==
    IF s = <<>> THEN <<>>
    ELSE IF s[1] # "<" THEN <<s[1]>> \o CutSpans(Tail(s))
    ELSE LET ends == {j \in 2..Len(s) : s[j] = ">"}
         IN IF ends = {} THEN <<>>
            ELSE CutSpans(Drop(s, CHOOSE j \in ends : \A k \in ends : j <= k))

(***************************************************************************)
(* The claims.                                                             *)
(***************************************************************************)

\* C1: every load that has returned to its caller has closed the connection
\* it opened, the early return on a missing participant included.
C1_LoadClosesConnection == status = "idle" => openConns = 0

\* C2: the leading-noise trim drops at most as many characters as the
\* captured span is long.
C2_TrimIsBounded == dpc = "trim" => drops <= Len(span)

\* C3: a malformed row never aborts or stalls a load: once a participant with
\* a conversation key has been selected, every row of the conversation has
\* its message in the sequence, in the order fetched.
C3_MalformedRowDoesNotBlock ==
    (rows \in InterleavedTables /\ lastSel # 0 /\ HasKey(lastSel)) =>
        /\ status = "idle"
        /\ Len(messages) = Cardinality(ConversationRows(lastSel))

\* C4: an absent container stays absent: no entry point creates a file at its
\* path (an empty file is there only when a connect created it).
C4_AbsentContainerStaysAbsent == file # "empty"

\* C5: the displayed conversation holds the messages of the last selected
\* participant's conversation key and no others: never a message of another
\* participantsHash, never more messages than the last query fetched, and,
\* once the load has returned, one message for each row of that key (none
\* for a participant without a key).
C5_DisplayedIsLastSelection ==
    /\ Len(messages) <= Len(fetched)
    /\ \A i \in 1..Len(fetched) :
           /\ HasKey(lastSel)
           /\ rows[fetched[i]].participantsHash = KeyOf(lastSel)
    /\ \A i \in 1..Len(messages) :
           messages[i].text = clean_message(rows[fetched[i]].data).text
    /\ (status = "idle" /\ lastSel # 0 /\ HasKey(lastSel)) =>
           /\ Len(messages) = Len(fetched)
           /\ {fetched[i] : i \in 1..Len(fetched)} = ConversationRows(lastSel)
           /\ Len(fetched) = Cardinality(ConversationRows(lastSel))
    /\ (status = "idle" /\ (lastSel = 0 \/ ~HasKey(lastSel))) => messages = <<>>

\* a conversation displayed while the table also holds another key's rows
C5_Witness ==
    /\ status = "idle"
    /\ lastSel = 2
    /\ Len(messages) = 1
    /\ Len(rows) = 2
    /\ \E i \in 1..Len(rows) : rows[i].participantsHash = KeyOf(1)

\* C6: a load for a participant without a row in Participants reports the
\* miss, leaves no message displayed and raises no fault, and a later load
\* for a participant with a key displays that conversation in full.
C6_MissYieldsEmptyConversation ==
    /\ (lastSel # 0 /\ ~HasKey(lastSel)) =>
           /\ messages = <<>>
           /\ status = "idle"
           /\ report = "No participant found"
    /\ (report = "No participant found" /\ status = "idle" /\ HasKey(lastSel)) =>
           Len(messages) = Cardinality(ConversationRows(lastSel))

\* a full conversation loaded after a miss whose connection stayed open
C6_Witness ==
    /\ report = "No participant found"
    /\ status = "idle"
    /\ openConns > 0
    /\ HasKey(lastSel)
    /\ Len(messages) = 2

C8_NoMarkerGivesSentinel ==
    (dpc = "done" /\ ~HasMarkerPair(content.val)) => result = Sentinel

C10_SortedByTimestamp ==
    /\ \A i, j \in 1..Len(messages) :
           i < j => TsLeq(messages[i].timestamp, messages[j].timestamp)
    /\ \A d1, d2 \in (0 - UnitsPerDay - 1)..(UnitsPerDay + 1) :
           d1 <= d2 => TsLeq(decode_timestamp(d1), decode_timestamp(d2))

\* two rows stored in descending date order, displayed in ascending order
C10_Witness ==
    /\ status = "idle"
    /\ fetched = <<2, 1>>
    /\ Len(messages) = 2
    /\ messages[1].timestamp # messages[2].timestamp

====
